---- MODULE Spec2Model ----
(***************************************************************************)
(* Verification model of the QSR world-model backend (be/qsr-be).          *)
(*                                                                         *)
(*   SpecRetry : the retry_llm_call decorator of src/utils/llm_utils.py,   *)
(*               one wrapped invocation with bounded parameters.           *)
(*   Spec      : QSROrchestrator.plan_shift of                             *)
(*               src/coordinator/orchestrator.py, one planning session.    *)
(*   SpecPure  : the constructors of src/models/schemas.py,                *)
(*               ScorerAgent.score_option, POST /api/v1/plan,              *)
(*               evaluate_shift and OperatorRunner.evaluate_case, each     *)
(*               applied to one input, and OperatorRunner.run on a list    *)
(*               of cases.                                                 *)
(*   SpecSessions : two plan_shift invocations on one orchestrator.        *)
(*   SpecRounds   : the loop of plan_shift for 1..MaxAttemptsBound rounds. *)
(*   SpecTerminates : Spec or SpecRetry with every pending call            *)
(*               eventually answered.                                      *)
(*                                                                         *)
(* Scores are hundredths (95 stands for 0.95), delays are whole seconds.   *)
(* An exception text is modelled by the set of the substrings the wrapper  *)
(* searches for that the lower-cased text contains.                        *)
(* plan_shift is modelled by its control flow; the score it compares is    *)
(* scores.overall_score, which score_option fills from the external        *)
(* output's combined_score.                                                *)
(***************************************************************************)
EXTENDS Integers, Sequences, FiniteSets, TLC

VARIABLES
    \* ---- retry_llm_call.wrapper ----
    r_pc,            \* "idle" | "loop" | "returned" | "raised"
    max_retries,     \* decorator argument
    initial_delay,   \* decorator argument
    backoff_factor,  \* decorator argument
    attempt,         \* for attempt in range(max_retries)
    delay,           \* current backoff delay
    error_str,       \* str(e).lower() of the last failure, Unbound before any
    r_calls,         \* number of invocations of func
    sleeps,          \* durations passed to time.sleep, in order
    failures,        \* the failures func raised, in order
    r_result,        \* value returned by the wrapper
    r_raised,        \* exception leaving the wrapper
    \* ---- QSROrchestrator.plan_shift ----
    pc,              \* position in plan_shift
    initial_context, \* context string built from the two analyses
    attempts,        \* loop counter
    feedback,        \* feedback for the next generate call, None at first
    staffing_plan,   \* options returned by generate_staffing_plan
    optIdx,          \* position of the for-loop over staffing_plan
    simulation,      \* simulation of the current option
    current_iteration_evals,
    evaluations,     \* history of all evaluations of the session
    roundStart,      \* Len(evaluations) when the current round began
    best_overall,    \* final selection
    response,        \* PlanningResponse returned
    error,           \* exception leaving plan_shift
    calls,           \* log of the agent calls made, in order
    \* ---- schema constructors, score_option, the planning endpoint ----
    p_op,            \* which operation is exercised
    p_pc,            \* "idle" | "input" | "constructed" | "assigned"
    p_in,            \* its input
    p_out,           \* the object or response it produced
    \* ---- concurrent plan_shift sessions on one orchestrator ----
    sess,            \* per session: the locals of its plan_shift invocation
    \* ---- the loop of plan_shift for a given number of attempts ----
    run              \* the locals of one plan_shift invocation

retryVars == <<r_pc, max_retries, initial_delay, backoff_factor, attempt,
               delay, error_str, r_calls, sleeps, failures, r_result, r_raised>>
planVars  == <<pc, initial_context, attempts, feedback, staffing_plan, optIdx,
               simulation, current_iteration_evals, evaluations, roundStart,
               best_overall, response, error, calls>>
pureVars  == <<p_op, p_pc, p_in, p_out>>
sessVars  == <<sess>>
runVars   == <<run>>
vars == <<retryVars, planVars, pureVars, sessVars, runVars>>

None    == "None"
\* error_str before any failure was caught (the name is not bound yet)
Unbound == {"<unbound>"}
\* no exception
NoError == [type |-> "None", text |-> {}]
NoPlanError == [type |-> "None", stage |-> "None", round |-> 0]
\* Python None for the optional values of plan_shift
NoContext == [demand |-> "None", capacity |-> "None"]
NoFeedback == [attempt |-> 0, score |-> 0, source |-> <<0, 0>>]
NoOption == [id |-> 0, total |-> 0]
NoSimulation == [option_id |-> 0, staffing_total |-> 0]
NoEvaluation == [round |-> 0, option |-> NoOption, simulation |-> NoSimulation,
                 scores |-> [overall_score |-> 0]]
NoResponse == [returned |-> FALSE, options_evaluated |-> <<>>,
               best_decision |-> NoEvaluation,
               restaurant_operator_plan |-> NoEvaluation,
               shadow_operator_best_plan |-> NoEvaluation,
               iterations |-> <<>>]

\* ------------------------------------------------------------------------
\* Bounds of the model
\* ------------------------------------------------------------------------
MaxRetriesBound == 3
MaxOptions == 2
MaxCount == 2
MaxAttemptsBound == 3
\* the longest list of evaluation cases a run is fed
MaxCases == 2

\* ------------------------------------------------------------------------
\* Program constants
\* ------------------------------------------------------------------------
MaxDelay == 60
MAX_ATTEMPTS == 2
TARGET_SCORE == 95

Min(a, b) == IF a <= b THEN a ELSE b

RECURSIVE Pow(_, _)
Pow(b, n) == IF n = 0 THEN 1 ELSE b * Pow(b, n - 1)

\* ========================================================================
\* retry_llm_call
\* ========================================================================
Signals == {"429", "resource exhausted", "quota", "too many requests",
            "503", "service unavailable"}

\* texts of the failures the wrapped call is given in the model
ErrorTexts == { {}, {"429"}, {"resource exhausted"}, {"quota"},
                {"too many requests"}, {"503"}, {"service unavailable"},
                {"429", "quota"}, {"429", "503"} }

\* a validation failure echoes the invalid input in its message
MalformedTexts == { {}, {"429"}, {"503"} }

Errors == [type : {"APIError"}, text : ErrorTexts]
          \cup [type : {"ValidationError"}, text : MalformedTexts]

Values == {"plan_a", "plan_b"}

InitialDelays == {2, 40, 70}
BackoffFactors == {1, 2}

IsRateLimit(text) ==
    \/ "429" \in text
    \/ "resource exhausted" \in text
    \/ "quota" \in text
    \/ "too many requests" \in text

IsServiceUnavailable_Truthy(text) == TRUE

IsServiceUnavailable(text) ==
    \/ "503" \in text
    \/ "service unavailable" \in text

IsQuotaAtExhaustion(text) ==
    \/ "429" \in text
    \/ "resource exhausted" \in text

PlanIdle ==
    /\ pc = "idle"
    /\ initial_context = NoContext
    /\ attempts = 0
    /\ feedback = NoFeedback
    /\ staffing_plan = <<>>
    /\ optIdx = 0
    /\ simulation = NoSimulation
    /\ current_iteration_evals = <<>>
    /\ evaluations = <<>>
    /\ roundStart = 0
    /\ best_overall = NoEvaluation
    /\ response = NoResponse
    /\ error = NoPlanError
    /\ calls = <<>>

PureIdle ==
    /\ p_op = "idle"
    /\ p_pc = "idle"
    /\ p_in = <<>>
    /\ p_out = <<>>

SessIdle == sess = <<>>

RunIdle == run = <<>>

RetryIdle ==
    /\ r_pc = "idle"
    /\ max_retries = 0
    /\ initial_delay = 0
    /\ backoff_factor = 0
    /\ attempt = 0
    /\ delay = 0
    /\ error_str = Unbound
    /\ r_calls = 0
    /\ sleeps = <<>>
    /\ failures = <<>>
    /\ r_result = None
    /\ r_raised = NoError

\* wrapper entered: delay = initial_delay, loop not started
InitRetry ==
    /\ r_pc = "loop"
    /\ max_retries \in 0..MaxRetriesBound
    /\ initial_delay \in InitialDelays
    /\ backoff_factor \in BackoffFactors
    /\ attempt = 0
    /\ delay = initial_delay
    /\ error_str = Unbound
    /\ r_calls = 0
    /\ sleeps = <<>>
    /\ failures = <<>>
    /\ r_result = None
    /\ r_raised = NoError
    /\ PlanIdle
    /\ PureIdle
    /\ SessIdle
    /\ RunIdle

\* return func(*args, **kwargs)
WrapperCallReturns(v) ==
    /\ r_pc = "loop"
    /\ attempt < max_retries
    /\ r_calls' = r_calls + 1
    /\ r_result' = v
    /\ r_pc' = "returned"
    /\ UNCHANGED <<max_retries, initial_delay, backoff_factor, attempt, delay,
                   error_str, sleeps, failures, r_raised>>
    /\ UNCHANGED <<planVars, pureVars, sessVars, runVars>>

\* func raises e: the except branch
WrapperCallRaises(e) ==
    /\ r_pc = "loop"
    /\ attempt < max_retries
    /\ r_calls' = r_calls + 1
    /\ failures' = Append(failures, e)
    /\ error_str' = e.text
    /\ IF IsRateLimit(e.text)
         THEN /\ sleeps' = Append(sleeps, delay)
              /\ delay' = Min(delay * backoff_factor, MaxDelay)
              /\ attempt' = attempt + 1
              /\ UNCHANGED <<r_pc, r_raised>>
         ELSE IF IsServiceUnavailable(e.text)
           THEN /\ sleeps' = Append(sleeps, delay)
                /\ delay' = delay * backoff_factor
                /\ attempt' = attempt + 1
                /\ UNCHANGED <<r_pc, r_raised>>
           ELSE /\ r_raised' = e
                /\ r_pc' = "raised"
                /\ UNCHANGED <<sleeps, delay, attempt>>
    /\ UNCHANGED <<max_retries, initial_delay, backoff_factor, r_result>>
    /\ UNCHANGED <<planVars, pureVars, sessVars, runVars>>

\* the for loop ran out: typed error from the last error_str
WrapperExhausted ==
    /\ r_pc = "loop"
    /\ attempt >= max_retries
    /\ r_raised' =
         IF error_str = Unbound
           THEN [type |-> "UnboundLocalError", text |-> {}]
           ELSE IF IsQuotaAtExhaustion(error_str)
             THEN [type |-> "LLMQuotaError", text |-> {}]
             ELSE [type |-> "LLMServiceError", text |-> {}]
    /\ r_pc' = "raised"
    /\ UNCHANGED <<max_retries, initial_delay, backoff_factor, attempt, delay,
                   error_str, r_calls, sleeps, failures, r_result>>
    /\ UNCHANGED <<planVars, pureVars, sessVars, runVars>>

NextRetry ==
    \/ \E v \in Values : WrapperCallReturns(v)
    \/ \E e \in Errors : WrapperCallRaises(e)
    \/ WrapperExhausted

SpecRetry == InitRetry /\ [][NextRetry]_vars

\* ------------------------------------------------------------------------
\* Properties of retry_llm_call (checked under SpecRetry)
\* ------------------------------------------------------------------------
\* the failure classes as the specification names them
RateLimitClass(text) ==
    text \cap {"429", "resource exhausted", "quota", "too many requests"} # {}
ServiceUnavailableClass(text) ==
    text \cap {"503", "service unavailable"} # {}
TransientClass(text) == RateLimitClass(text) \/ ServiceUnavailableClass(text)

AllFailuresRateLimit ==
    \A i \in 1..Len(failures) : RateLimitClass(failures[i].text)
LastFailure == failures[Len(failures)]
RaisedAfterExhaustion ==
    /\ r_pc = "raised"
    /\ r_raised.type \in {"LLMQuotaError", "LLMServiceError", "UnboundLocalError"}

\* C2: k rate-limit failures (k < max_retries) followed by a success: the
\* wrapper returns the value after k+1 calls and k sleeps, the i-th sleep
\* lasting min(initial_delay * backoff_factor^i, maximum delay).
C2_SleepsFollowCappedBackoff ==
    (r_pc = "returned" /\ AllFailuresRateLimit) =>
        /\ r_result \in Values
        /\ r_calls = Len(failures) + 1
        /\ Len(sleeps) = Len(failures)
        /\ \A i \in 1..Len(sleeps) :
             sleeps[i] = Min(initial_delay * Pow(backoff_factor, i - 1), MaxDelay)

\* C3: a call that fails every time with a rate-limit-class error is invoked
\* exactly max_retries times and the wrapper then raises LLMQuotaError.
C3_AlwaysRateLimitedRaisesQuota ==
    (r_pc = "raised" /\ Len(failures) >= 1 /\ AllFailuresRateLimit) =>
        /\ r_calls = max_retries
        /\ r_raised.type = "LLMQuotaError"

\* C4: a failure that is neither rate-limit-class nor service-unavailable-
\* class, at any call index, leaves the wrapper at once as that same failure:
\* no further call and no sleep after it.
C4_NonTransientPropagates ==
    (Len(failures) >= 1 /\ ~TransientClass(LastFailure.text)) =>
        /\ r_pc = "raised"
        /\ r_raised = LastFailure
        /\ r_calls = Len(failures)
        /\ Len(sleeps) = Len(failures) - 1

C4_Witness ==
    /\ Len(failures) >= 2
    /\ ~TransientClass(LastFailure.text)
    /\ TransientClass(failures[1].text)
    /\ r_pc = "raised"
    /\ r_raised = LastFailure

\* C5: a plan generator whose external output fails StaffingPlan validation
\* raises that validation failure after exactly one invocation and no sleep,
\* whatever the validation message contains.
C5_MalformedNeverRetried ==
    (Len(failures) >= 1 /\ failures[1].type = "ValidationError") =>
        /\ r_pc = "raised"
        /\ r_raised = failures[1]
        /\ r_calls = 1
        /\ sleeps = <<>>

\* C6: after exhausting the retries the typed error follows the last failure
\* only: LLMQuotaError when it was rate-limit-class, LLMServiceError when it
\* was service-unavailable-class.
C6_TypedErrorFollowsLastFailure ==
    (RaisedAfterExhaustion /\ Len(failures) >= 1) =>
        /\ RateLimitClass(LastFailure.text) => r_raised.type = "LLMQuotaError"
        /\ (~RateLimitClass(LastFailure.text)
              /\ ServiceUnavailableClass(LastFailure.text))
             => r_raised.type = "LLMServiceError"

\* C24: no sleep of the wrapper lasts longer than the maximum delay, whatever
\* the class of the failure before it and whatever the parameters.
C24_EverySleepWithinMaxDelay ==
    \A i \in 1..Len(sleeps) : sleeps[i] <= MaxDelay

\* C25: when the wrapper has ended, by a return or by an error, it has slept
\* once less than it has invoked the call: no sleep is left without a call
\* after it.
C25_NoSleepAfterLastCall ==
    (r_pc \in {"returned", "raised"} /\ r_calls >= 1) =>
        Len(sleeps) = r_calls - 1

\* C35: whatever max_retries >= 0 is, a finished invocation of the wrapper
\* has invoked the call at least once and ended in exactly one of: the call's
\* value returned, the call's own non-transient failure re-raised,
\* LLMQuotaError, LLMServiceError.
C35_OneOfFourOutcomes ==
    r_pc \in {"returned", "raised"} =>
        /\ r_calls >= 1
        /\ \/ r_pc = "returned" /\ r_result \in Values /\ r_raised = NoError
           \/ /\ r_pc = "raised"
              /\ Len(failures) >= 1
              /\ r_raised = LastFailure
              /\ ~TransientClass(LastFailure.text)
           \/ r_pc = "raised" /\ r_raised.type = "LLMQuotaError"
           \/ r_pc = "raised" /\ r_raised.type = "LLMServiceError"

\* ========================================================================
\* QSROrchestrator.plan_shift
\* ========================================================================
ScoreValues == {80, 90, 95, 100}
StaffTotals == {6, 16}
\* ValueError: unparsable output; APIError: a failure of the external service
\* that no retry would cure; APIError_429: a rate-limit failure of one request
PlanErrorTypes == {"ValueError", "APIError", "APIError_429"}

\* constraints = request.constraints or Constraints(available_staff=15, ...)
available_staff == 15

\* the lists of options an external output can hold: ids in output order
RawOptionLists ==
    UNION { [1..n -> StaffTotals] : n \in 0..MaxOptions }
RawOptions(totals) ==
    [i \in 1..Len(totals) |-> [id |-> i, total |-> totals[i]]]

\* list.sort(key=total) is stable: x goes after the elements with total <= its own
InsertByTotal(s, x) ==
    LET k == Cardinality({i \in 1..Len(s) : s[i].total <= x.total})
    IN  SubSeq(s, 1, k) \o <<x>> \o SubSeq(s, k + 1, Len(s))

RECURSIVE SortByTotal(_)
SortByTotal(s) ==
    IF s = <<>> THEN <<>>
    ELSE InsertByTotal(SortByTotal(SubSeq(s, 1, Len(s) - 1)), s[Len(s)])

Score_ByRanking(e) ==
    IF "ranking" \in DOMAIN e.scores
      THEN (IF e.scores.ranking = "excellent" THEN 100 ELSE 0)
      ELSE e.scores.overall_score

\* key=lambda e: e.scores.overall_score
Score(e) == e.scores.overall_score

FirstMax_Min(evals) ==
    LET i == CHOOSE i \in 1..Len(evals) :
                 /\ \A j \in 1..Len(evals) : Score(evals[j]) >= Score(evals[i])
                 /\ \A j \in 1..(i - 1) : Score(evals[j]) > Score(evals[i])
    IN  evals[i]

FirstMax_LastMax(evals) ==
    LET i == CHOOSE i \in 1..Len(evals) :
                 /\ \A j \in 1..Len(evals) : Score(evals[j]) <= Score(evals[i])
                 /\ \A j \in (i + 1)..Len(evals) : Score(evals[j]) < Score(evals[i])
    IN  evals[i]

\* max(evals, key=overall_score): the first of the maximal elements
FirstMax(evals) ==
    LET i == CHOOSE i \in 1..Len(evals) :
                 /\ \A j \in 1..Len(evals) : Score(evals[j]) <= Score(evals[i])
                 /\ \A j \in 1..(i - 1) : Score(evals[j]) < Score(evals[i])
    IN  evals[i]

LoopContinues_OffByOne(n) == n <= MAX_ATTEMPTS

\* while attempts < MAX_ATTEMPTS
LoopContinues(n) == n < MAX_ATTEMPTS

ReachedTarget_Strict(score) == score > TARGET_SCORE

ReachedTarget_Never(score) == FALSE

\* best_of_run.scores.overall_score >= TARGET_SCORE
ReachedTarget(score) == score >= TARGET_SCORE

\* the feedback text: attempt number, score, and the bottlenecks and
\* weaknesses of the evaluation it is built from
BuildFeedback(n, e) ==
    [attempt |-> n, score |-> Score(e), source |-> <<e.round, e.option.id>>]

Call(stage, ctx, fb) ==
    [stage |-> stage, round |-> attempts, context |-> ctx, feedback |-> fb,
     outcome |-> "ok"]

\* a call whose external request or parsing raised
FailedCall(stage, ctx, fb) ==
    [stage |-> stage, round |-> attempts, context |-> ctx, feedback |-> fb,
     outcome |-> "failed"]

\* what the external call of an analyzer can do
AnalyzerOutcomes == {"ok", "malformed", "raised"}

AnalyzerResult_NoFallback(outcome) ==
    IF outcome = "ok" THEN "llm" ELSE "None"

\* analyze_context / analyze_capacity: try ... except Exception: return fallback
AnalyzerResult(outcome) ==
    IF outcome = "ok" THEN "llm" ELSE "fallback"

AnalyzerCall(stage, outcome) ==
    IF outcome = "ok" THEN Call(stage, NoContext, NoFeedback)
    ELSE FailedCall(stage, NoContext, NoFeedback)

Init ==
    /\ pc = "context"
    /\ initial_context = NoContext
    /\ attempts = 0
    /\ feedback = NoFeedback
    /\ staffing_plan = <<>>
    /\ optIdx = 0
    /\ simulation = NoSimulation
    /\ current_iteration_evals = <<>>
    /\ evaluations = <<>>
    /\ roundStart = 0
    /\ best_overall = NoEvaluation
    /\ response = NoResponse
    /\ error = NoPlanError
    /\ calls = <<>>
    /\ RetryIdle
    /\ PureIdle
    /\ SessIdle
    /\ RunIdle

\* Step 0: both analyzers return an analysis or their fallback document;
\* d, c are the outcomes of their external calls
AnalyzeContext(d, c) ==
    /\ pc = "context"
    /\ initial_context' = [demand |-> AnalyzerResult(d),
                            capacity |-> AnalyzerResult(c)]
    /\ calls' = calls \o <<AnalyzerCall("analyze_context", d),
                           AnalyzerCall("analyze_capacity", c)>>
    /\ pc' = "while"
    /\ UNCHANGED <<attempts, feedback, staffing_plan, optIdx, simulation,
                   current_iteration_evals, evaluations, roundStart,
                   best_overall, response, error>>
    /\ UNCHANGED <<retryVars, pureVars, sessVars, runVars>>

\* while attempts < MAX_ATTEMPTS: attempts += 1
LoopEnter ==
    /\ pc = "while"
    /\ LoopContinues(attempts)
    /\ attempts' = attempts + 1
    /\ roundStart' = Len(evaluations)
    /\ pc' = "generate"
    /\ UNCHANGED <<initial_context, feedback, staffing_plan, optIdx, simulation,
                   current_iteration_evals, evaluations, best_overall,
                   response, error, calls>>
    /\ UNCHANGED <<retryVars, pureVars, sessVars, runVars>>

LoopExit_Stay ==
    /\ pc = "while"
    /\ ~LoopContinues(attempts)
    /\ UNCHANGED vars

\* the while condition is false: on to the final selection
LoopExit ==
    /\ pc = "while"
    /\ ~LoopContinues(attempts)
    /\ pc' = "final"
    /\ UNCHANGED <<initial_context, attempts, feedback, staffing_plan, optIdx,
                   simulation, current_iteration_evals, evaluations, roundStart,
                   best_overall, response, error, calls>>
    /\ UNCHANGED <<retryVars, pureVars, sessVars, runVars>>

\* Step 1: generate_staffing_plan returns its options sorted by total
GenerateReturns(totals) ==
    /\ pc = "generate"
    /\ calls' = Append(calls, Call("generate", initial_context, feedback))
    /\ staffing_plan' = SortByTotal(RawOptions(totals))
    /\ current_iteration_evals' = <<>>
    /\ optIdx' = 1
    /\ pc' = IF Len(totals) = 0 THEN "check" ELSE "simulate"
    /\ UNCHANGED <<initial_context, attempts, feedback, simulation, evaluations,
                   roundStart, best_overall, response, error>>
    /\ UNCHANGED <<retryVars, pureVars, sessVars, runVars>>

GenerateRaises(t) ==
    /\ pc = "generate"
    /\ calls' = Append(calls, FailedCall("generate", initial_context, feedback))
    /\ error' = [type |-> t, stage |-> "generate", round |-> attempts]
    /\ pc' = "raised"
    /\ UNCHANGED <<initial_context, attempts, feedback, staffing_plan, optIdx,
                   simulation, current_iteration_evals, evaluations, roundStart,
                   best_overall, response>>
    /\ UNCHANGED <<retryVars, pureVars, sessVars, runVars>>

SimulateReturns_SkipScore ==
    /\ pc = "simulate"
    /\ calls' = Append(calls, Call("simulate", NoContext, NoFeedback))
    /\ simulation' = [option_id |-> staffing_plan[optIdx].id,
                      staffing_total |-> staffing_plan[optIdx].total]
    /\ IF optIdx < Len(staffing_plan)
         THEN /\ optIdx' = optIdx + 1
              /\ pc' = "simulate"
         ELSE /\ optIdx' = optIdx
              /\ pc' = "check"
    /\ UNCHANGED <<initial_context, attempts, feedback, staffing_plan,
                   current_iteration_evals, evaluations, roundStart,
                   best_overall, response, error>>
    /\ UNCHANGED <<retryVars, pureVars, sessVars, runVars>>

SimulateReturns_SkipOverStaffed ==
    /\ pc = "simulate"
    /\ IF staffing_plan[optIdx].total > available_staff
         THEN /\ UNCHANGED <<calls, simulation>>
              /\ IF optIdx < Len(staffing_plan)
                   THEN /\ optIdx' = optIdx + 1
                        /\ pc' = "simulate"
                   ELSE /\ optIdx' = optIdx
                        /\ pc' = "check"
         ELSE /\ calls' = Append(calls, Call("simulate", NoContext, NoFeedback))
              /\ simulation' = [option_id |-> staffing_plan[optIdx].id,
                                staffing_total |-> staffing_plan[optIdx].total]
              /\ pc' = "score"
              /\ UNCHANGED optIdx
    /\ UNCHANGED <<initial_context, attempts, feedback, staffing_plan,
                   current_iteration_evals, evaluations, roundStart,
                   best_overall, response, error>>
    /\ UNCHANGED <<retryVars, pureVars, sessVars, runVars>>

\* Step 2: simulate(scenario, option.staffing)
SimulateReturns ==
    /\ pc = "simulate"
    /\ calls' = Append(calls, Call("simulate", NoContext, NoFeedback))
    /\ simulation' = [option_id |-> staffing_plan[optIdx].id,
                      staffing_total |-> staffing_plan[optIdx].total]
    /\ pc' = "score"
    /\ UNCHANGED <<initial_context, attempts, feedback, staffing_plan, optIdx,
                   current_iteration_evals, evaluations, roundStart,
                   best_overall, response, error>>
    /\ UNCHANGED <<retryVars, pureVars, sessVars, runVars>>

SimulateRaises_Skip(t) ==
    /\ pc = "simulate"
    /\ calls' = Append(calls, FailedCall("simulate", NoContext, NoFeedback))
    /\ IF optIdx < Len(staffing_plan)
         THEN /\ optIdx' = optIdx + 1
              /\ pc' = "simulate"
         ELSE /\ optIdx' = optIdx
              /\ pc' = "check"
    /\ UNCHANGED <<initial_context, attempts, feedback, staffing_plan, error,
                   simulation, current_iteration_evals, evaluations, roundStart,
                   best_overall, response>>
    /\ UNCHANGED <<retryVars, pureVars, sessVars, runVars>>

SimulateRaises(t) ==
    /\ pc = "simulate"
    /\ calls' = Append(calls, FailedCall("simulate", NoContext, NoFeedback))
    /\ error' = [type |-> t, stage |-> "simulate", round |-> attempts]
    /\ pc' = "raised"
    /\ UNCHANGED <<initial_context, attempts, feedback, staffing_plan, optIdx,
                   simulation, current_iteration_evals, evaluations, roundStart,
                   best_overall, response>>
    /\ UNCHANGED <<retryVars, pureVars, sessVars, runVars>>

\* Step 3: score_option, then the evaluation joins both lists
ScoreReturns(sc) ==
    /\ pc = "score"
    /\ calls' = Append(calls, Call("score", NoContext, NoFeedback))
    /\ LET evaluation == [round |-> attempts,
                          option |-> staffing_plan[optIdx],
                          simulation |-> simulation,
                          scores |-> [overall_score |-> sc]]
       IN  /\ current_iteration_evals' = Append(current_iteration_evals, evaluation)
           /\ evaluations' = Append(evaluations, evaluation)
    /\ IF optIdx < Len(staffing_plan)
         THEN /\ optIdx' = optIdx + 1
              /\ pc' = "simulate"
         ELSE /\ optIdx' = optIdx
              /\ pc' = "check"
    /\ UNCHANGED <<initial_context, attempts, feedback, staffing_plan, simulation,
                   roundStart, best_overall, response, error>>
    /\ UNCHANGED <<retryVars, pureVars, sessVars, runVars>>

ScoreRaises(t) ==
    /\ pc = "score"
    /\ calls' = Append(calls, FailedCall("score", NoContext, NoFeedback))
    /\ error' = [type |-> t, stage |-> "score", round |-> attempts]
    /\ pc' = "raised"
    /\ UNCHANGED <<initial_context, attempts, feedback, staffing_plan, optIdx,
                   simulation, current_iteration_evals, evaluations, roundStart,
                   best_overall, response>>
    /\ UNCHANGED <<retryVars, pureVars, sessVars, runVars>>

\* Step 4: check threshold and prepare feedback
CheckThreshold ==
    /\ pc = "check"
    /\ IF current_iteration_evals = <<>>
         THEN /\ pc' = "final"
              /\ UNCHANGED feedback
         ELSE LET best_of_run == FirstMax(current_iteration_evals)
              IN  IF ReachedTarget(Score(best_of_run))
                    THEN /\ pc' = "final"
                         /\ UNCHANGED feedback
                    ELSE /\ pc' = "while"
                         /\ feedback' = IF attempts < MAX_ATTEMPTS
                                          THEN BuildFeedback(attempts, best_of_run)
                                          ELSE feedback
    /\ UNCHANGED <<initial_context, attempts, staffing_plan, optIdx, simulation,
                   current_iteration_evals, evaluations, roundStart,
                   best_overall, response, error, calls>>
    /\ UNCHANGED <<retryVars, pureVars, sessVars, runVars>>

\* Final selection and response
FinalSelection ==
    /\ pc = "final"
    /\ IF evaluations = <<>>
         THEN /\ error' = [type |-> "RuntimeError", stage |-> "final",
                           round |-> attempts]
              /\ pc' = "raised"
              /\ UNCHANGED <<best_overall, response>>
         ELSE /\ best_overall' = FirstMax(evaluations)
              /\ response' = [returned |-> TRUE,
                              options_evaluated |-> evaluations,
                              best_decision |-> FirstMax(evaluations),
                              restaurant_operator_plan |-> NoEvaluation,
                              shadow_operator_best_plan |-> NoEvaluation,
                              iterations |-> <<>>]
              /\ pc' = "returned"
              /\ UNCHANGED error
    /\ UNCHANGED <<initial_context, attempts, feedback, staffing_plan, optIdx,
                   simulation, current_iteration_evals, evaluations, roundStart,
                   calls>>
    /\ UNCHANGED <<retryVars, pureVars, sessVars, runVars>>

Next ==
    \/ \E d \in AnalyzerOutcomes, c \in AnalyzerOutcomes : AnalyzeContext(d, c)
    \/ LoopEnter
    \/ LoopExit
    \/ \E totals \in RawOptionLists : GenerateReturns(totals)
    \/ \E t \in PlanErrorTypes : GenerateRaises(t)
    \/ SimulateReturns
    \/ \E t \in PlanErrorTypes : SimulateRaises(t)
    \/ \E sc \in ScoreValues : ScoreReturns(sc)
    \/ \E t \in PlanErrorTypes : ScoreRaises(t)
    \/ CheckThreshold
    \/ FinalSelection

Spec == Init /\ [][Next]_vars

\* One run of plan_shift or one invocation of the wrapper, in which every
\* external call that is pending eventually returns or fails.
InitTerminates == Init \/ InitRetry
NextTerminates == Next \/ NextRetry
SpecTerminates ==
    InitTerminates /\ [][NextTerminates]_vars
      /\ WF_vars(Next) /\ WF_vars(NextRetry)

\* ------------------------------------------------------------------------
\* Properties of plan_shift (checked under Spec)
\* ------------------------------------------------------------------------
ScoresOf(evals) == {Score(evals[i]) : i \in 1..Len(evals)}
\* best score over the evaluations made so far, -1 before the first
BestScoreSoFar ==
    IF evaluations = <<>> THEN -1
    ELSE CHOOSE m \in ScoresOf(evaluations) : \A x \in ScoresOf(evaluations) : x <= m

\* evaluations of the rounds that have ended
CompletedEvaluations ==
    IF pc \in {"generate", "simulate", "score", "check"}
      THEN SubSeq(evaluations, 1, roundStart)
      ELSE evaluations
GenerateCalls == {i \in 1..Len(calls) : calls[i].stage = "generate"}

\* C1: the best-so-far score never decreases from one step to the next, and
\* a returned best evaluation scores at least as much as the first evaluation
\* (it carries the best score of the run).
C1_BestNeverDecreases ==
    [][ /\ BestScoreSoFar' >= BestScoreSoFar
        /\ pc' = "returned" =>
             /\ Score(response'.best_decision) >= Score(evaluations'[1])
             /\ Score(response'.best_decision) = BestScoreSoFar' ]_vars

C1_Witness ==
    /\ pc = "returned"
    /\ Len(evaluations) >= 2
    /\ evaluations[Len(evaluations)].round = 2
    /\ Score(response.best_decision) > Score(evaluations[1])

\* C7: when evaluations of different rounds share the maximal score, the best
\* evaluation returned is the one of the earliest such round.
C7_TieKeepsEarlierRound ==
    pc = "returned" =>
        /\ \E i \in 1..Len(evaluations) : response.best_decision = evaluations[i]
        /\ \A i \in 1..Len(evaluations) :
             Score(evaluations[i]) >= Score(response.best_decision)
               => response.best_decision.round <= evaluations[i].round

C7_Witness ==
    /\ pc = "returned"
    /\ \E i, j \in 1..Len(evaluations) :
         /\ evaluations[i].round = 1
         /\ evaluations[j].round = 2
         /\ Score(evaluations[i]) = Score(evaluations[j])
         /\ Score(evaluations[i]) = BestScoreSoFar
    /\ response.best_decision.round = 1

\* C8: with MAX_ATTEMPTS = N at most N refinement rounds follow the initial
\* plan, and the iteration trace of a returned response has length <= N.
C8_RoundsAndTraceBounded ==
    /\ Cardinality(GenerateCalls) - 1 <= MAX_ATTEMPTS
    /\ attempts <= MAX_ATTEMPTS
    /\ pc = "returned" => Len(response.iterations) <= MAX_ATTEMPTS

C8_Witness ==
    /\ pc = "returned"
    /\ attempts = MAX_ATTEMPTS
    /\ Cardinality(GenerateCalls) = MAX_ATTEMPTS
    /\ Len(response.iterations) = 0

\* C9: once a round has ended with the best-so-far score >= TARGET_SCORE, no
\* generator, simulator or scorer call is made in the run any more.
C9_NoCallAfterTarget ==
    [][ (CompletedEvaluations # <<>>
           /\ \E i \in 1..Len(CompletedEvaluations) :
                Score(CompletedEvaluations[i]) >= TARGET_SCORE)
        => calls' = calls ]_vars

C9_Witness ==
    /\ pc = "returned"
    /\ attempts = 1
    /\ attempts < MAX_ATTEMPTS
    /\ BestScoreSoFar = TARGET_SCORE

\* C10: a failure of the plan generation or of the simulation in a round
\* after the first does not make plan_shift fail.
C10_RefinementFailureDoesNotAbort ==
    ~(/\ pc = "raised"
      /\ error.stage \in {"generate", "simulate"}
      /\ error.round >= 2)

\* C11: a failure of the generation, simulation or scoring of the initial
\* plan (round 1) ends plan_shift in failure; a failed run never carries a
\* PlanningResponse, and a response is returned only after round 1 produced
\* an evaluation.
C11_InitialFailureIsFatal ==
    /\ (\E i \in 1..Len(calls) :
          /\ calls[i].round = 1
          /\ calls[i].stage \in {"generate", "simulate", "score"}
          /\ calls[i].outcome = "failed")
         => pc = "raised"
    /\ pc = "raised" => response = NoResponse
    /\ response.returned =>
         /\ pc = "returned"
         /\ error = NoPlanError
         /\ evaluations # <<>>
         /\ evaluations[1].round = 1

C11_Witness ==
    /\ pc = "raised"
    /\ error.round = 1
    /\ error.stage = "simulate"
    /\ Len(evaluations) >= 1
    /\ response = NoResponse

C17_ResponseCarriesBothPlans ==
    pc = "returned" =>
        /\ response.restaurant_operator_plan # NoEvaluation
        /\ response.shadow_operator_best_plan # NoEvaluation

\* C18 as stated: a run whose initial plan scores >= TARGET_SCORE still
\* invokes the plan generation of a refinement round before it stops.
C18_InitialTargetStillRefines ==
    (pc = "returned" /\ Score(evaluations[1]) >= TARGET_SCORE) =>
        \E i \in GenerateCalls : calls[i].round >= 2

\* C18 amended: the target check sits inside the loop, at the end of each
\* round, the first included: once the initial plan scores >= TARGET_SCORE the
\* run stays in round 1 and plan generation is invoked exactly once.
C18_InitialTargetStopsFirstRound ==
    (evaluations # <<>> /\ Score(evaluations[1]) >= TARGET_SCORE) =>
        /\ attempts = 1
        /\ Cardinality(GenerateCalls) = 1
        /\ pc \in {"simulate", "score", "check", "final", "returned", "raised"}

C18_Witness ==
    /\ pc = "returned"
    /\ Score(evaluations[1]) > TARGET_SCORE
    /\ attempts = 1
    /\ Cardinality(GenerateCalls) = 1

\* C21 as stated: every option the loop evaluates, the returned best one
\* included, has a total within the staff available.
C21_EvaluatedPlansWithinStaff ==
    /\ \A i \in 1..Len(evaluations) :
         evaluations[i].option.total <= available_staff
    /\ pc = "returned" => response.best_decision.option.total <= available_staff

\* C21 amended: the constraints are advisory. The loop evaluates every option
\* the generator returned, in order and unchanged, whatever its total, and the
\* best decision returned is a highest-scoring evaluation, within the staff
\* available or not.
C21_EveryGeneratedPlanEvaluated ==
    /\ pc = "check" =>
         /\ Len(current_iteration_evals) = Len(staffing_plan)
         /\ \A i \in 1..Len(staffing_plan) :
              current_iteration_evals[i].option = staffing_plan[i]
    /\ pc = "returned" =>
         \A i \in 1..Len(evaluations) :
             evaluations[i].scores.overall_score
               <= response.best_decision.scores.overall_score

C21_Witness ==
    /\ pc = "returned"
    /\ response.best_decision.option.total > available_staff
    /\ \E i \in 1..Len(evaluations) :
         evaluations[i].option.total <= available_staff

\* C27: every generation call of a round after the first is handed the plan
\* of the best evaluation so far as the previous plan, a feedback text and the
\* shared context.
C27_RefinementGetsBestPlan ==
    \A i \in GenerateCalls :
        calls[i].round >= 2 =>
            /\ "previous_plan" \in DOMAIN calls[i]
            /\ \E j \in 1..Len(evaluations) :
                 /\ evaluations[j].round < calls[i].round
                 /\ calls[i].previous_plan = evaluations[j].option
            /\ calls[i].feedback # NoFeedback
            /\ calls[i].context = initial_context

\* C28: a rate-limit failure of the simulator surfaces as a failure of
\* plan_shift only after the call was tried again.
C28_TransientSimulateFailureRetried ==
    (pc = "raised" /\ error.stage = "simulate" /\ error.type = "APIError_429") =>
        Cardinality({i \in 1..Len(calls) :
                        /\ calls[i].stage = "simulate"
                        /\ calls[i].round = error.round
                        /\ calls[i].outcome = "failed"}) >= 2

\* C29: the two context analyses are the first calls of a run; every round
\* is a generation followed by simulate-then-score pairs; a generation of a
\* later round comes directly after a completed scoring of the round before;
\* a response is returned only after a completed scoring, with no call left
\* unfinished.
StageCalls == {i \in 1..Len(calls) :
                 calls[i].stage \in {"generate", "simulate", "score"}}
C29_StagesInOrder ==
    /\ pc # "context" =>
         /\ Len(calls) >= 2
         /\ calls[1].stage = "analyze_context"
         /\ calls[2].stage = "analyze_capacity"
    /\ \A i \in 1..Len(calls) : i >= 3 <=> i \in StageCalls
    /\ \A i \in StageCalls :
         /\ calls[i].round \in 1..MAX_ATTEMPTS
         /\ i = 3 => calls[i].stage = "generate" /\ calls[i].round = 1
         /\ (i > 3 /\ calls[i].stage = "generate") =>
              /\ calls[i - 1].stage = "score"
              /\ calls[i - 1].outcome = "ok"
              /\ calls[i].round = calls[i - 1].round + 1
         /\ calls[i].stage = "simulate" =>
              /\ calls[i - 1].stage \in {"generate", "score"}
              /\ calls[i - 1].outcome = "ok"
              /\ calls[i].round = calls[i - 1].round
         /\ calls[i].stage = "score" =>
              /\ calls[i - 1].stage = "simulate"
              /\ calls[i - 1].outcome = "ok"
              /\ calls[i].round = calls[i - 1].round
    /\ pc = "returned" =>
         /\ calls[Len(calls)].stage \in {"score", "generate"}
         /\ calls[Len(calls)].outcome = "ok"
         /\ \E i \in StageCalls : calls[i].stage = "score" /\ calls[i].outcome = "ok"

C29_Witness ==
    /\ pc = "returned"
    /\ attempts = 2
    /\ Len(calls) >= 10
    /\ calls[Len(calls)].round = 2
    /\ \E i \in StageCalls : calls[i].stage = "generate" /\ calls[i].round = 2

\* C30: the history of a returned response holds exactly one entry for every
\* completed round after the first, numbered with the attempt and holding the
\* round's evaluation.
C30_TraceHasEveryRound ==
    pc = "returned" =>
        \A r \in 2..attempts :
            (\E j \in 1..Len(evaluations) : evaluations[j].round = r) =>
                Cardinality({i \in 1..Len(response.iterations) :
                               response.iterations[i].iteration_number = r}) = 1

\* C31: every plan-generation call and every simulation call of a session is
\* handed the context built from the two analyses, the same in every round.
C31_ContextReachesEveryStage ==
    \A i \in 1..Len(calls) :
        calls[i].stage \in {"generate", "simulate"} =>
            calls[i].context = initial_context

C34_WitnessNoOptions ==
    /\ pc = "raised"
    /\ error.type = "RuntimeError"
    /\ evaluations = <<>>

\* C32: every run of plan_shift eventually ends, returned or raised; every
\* invocation of the wrapper eventually ends, returned or raised, and never
\* invokes the wrapped call more than max_retries times.
C32_EveryRunTerminates ==
    /\ <>(pc \in {"returned", "raised"} \/ r_pc \in {"returned", "raised"})
    /\ [](r_calls <= max_retries)

C32_Witness ==
    /\ pc = "returned"
    /\ attempts = MAX_ATTEMPTS
    /\ response.best_decision.scores.overall_score < TARGET_SCORE
    /\ \E i \in 1..Len(calls) : calls[i].round = MAX_ATTEMPTS

\* ========================================================================
\* Schema constructors (models/schemas.py), ScorerAgent.score_option and the
\* planning endpoint (api/main.py), each applied to one bounded input
\* ========================================================================
NoOutput == [kind |-> "none"]

\* ---- Staffing ----
StaffCounts == -1..MaxCount
SuppliedTotals == {0, 1, 7}
StaffingInputs == [drive_thru : StaffCounts, kitchen : StaffCounts,
                   front_counter : StaffCounts, total : SuppliedTotals]
Stations == {"drive_thru", "kitchen", "front_counter"}

calculate_total_KeepSupplied(v, values) ==
    IF v # 0 THEN v
    ELSE values.drive_thru + values.kitchen + values.front_counter

\* @validator('total', always=True): v is the supplied total, values the
\* fields validated before it
calculate_total(v, values) ==
    values.drive_thru + values.kitchen + values.front_counter

\* Staffing(**data): Field(ge=0) on the three counts, then the validator
ConstructStaffing ==
    /\ p_op = "Staffing"
    /\ p_pc = "input"
    /\ p_out' =
         IF p_in.drive_thru < 0 \/ p_in.kitchen < 0 \/ p_in.front_counter < 0
           THEN [kind |-> "ValidationError"]
           ELSE [kind |-> "Staffing",
                 drive_thru |-> p_in.drive_thru,
                 kitchen |-> p_in.kitchen,
                 front_counter |-> p_in.front_counter,
                 total |-> calculate_total(p_in.total, p_in)]
    /\ p_pc' = "constructed"
    /\ UNCHANGED <<p_op, p_in>>
    /\ UNCHANGED <<retryVars, planVars, sessVars, runVars>>

\* staffing.<station> = v: a BaseModel without validate_assignment stores
\* the value, no validator runs
AssignStation(f, v) ==
    /\ p_op = "Staffing"
    /\ p_pc \in {"constructed", "assigned"}
    /\ p_out.kind = "Staffing"
    /\ p_out' = [p_out EXCEPT ![f] = v]
    /\ p_pc' = "assigned"
    /\ UNCHANGED <<p_op, p_in>>
    /\ UNCHANGED <<retryVars, planVars, sessVars, runVars>>

\* staffing.total = v
AssignTotal(v) ==
    /\ p_op = "Staffing"
    /\ p_pc \in {"constructed", "assigned"}
    /\ p_out.kind = "Staffing"
    /\ p_out' = [p_out EXCEPT !.total = v]
    /\ p_pc' = "assigned"
    /\ UNCHANGED <<p_op, p_in>>
    /\ UNCHANGED <<retryVars, planVars, sessVars, runVars>>

\* ---- Scenario.day_of_week ----
valid_days == {"monday", "tuesday", "wednesday", "thursday", "friday",
               "saturday", "sunday"}

\* str.lower() on the strings of the model that hold an upper-case letter
CaseTable ==
    [s \in {"Monday", "MONDAY", "Friday", "FRIDAY", "fRiDaY", "Sunday",
            "Funday", "FRI"} |->
       CASE s \in {"Monday", "MONDAY"} -> "monday"
         [] s \in {"Friday", "FRIDAY", "fRiDaY"} -> "friday"
         [] s = "Sunday" -> "sunday"
         [] s = "Funday" -> "funday"
         [] s = "FRI" -> "fri"]

Lower(s) == IF s \in DOMAIN CaseTable THEN CaseTable[s] ELSE s

DayInputs == valid_days \cup DOMAIN CaseTable
             \cup {"", "fri", "funday", "friday ", "freitag"}

validate_day_NoLower(v) ==
    IF Lower(v) \notin valid_days
      THEN [ok |-> FALSE, value |-> v]
      ELSE [ok |-> TRUE, value |-> v]

\* @validator('day_of_week')
validate_day(v) ==
    IF Lower(v) \notin valid_days
      THEN [ok |-> FALSE, value |-> v]
      ELSE [ok |-> TRUE, value |-> Lower(v)]

ConstructScenario ==
    /\ p_op = "Scenario"
    /\ p_pc = "input"
    /\ p_out' = IF validate_day(p_in.day_of_week).ok
                  THEN [kind |-> "Scenario",
                        day_of_week |-> validate_day(p_in.day_of_week).value]
                  ELSE [kind |-> "ValidationError"]
    /\ p_pc' = "constructed"
    /\ UNCHANGED <<p_op, p_in>>
    /\ UNCHANGED <<retryVars, planVars, sessVars, runVars>>

\* ---- ScorerAgent.score_option ----
RawScores == {0, 60, 90, 120}
CombinedScores == {0, 50, 80, 130}
ScorerOutputs == [profit : RawScores, customer_satisfaction : RawScores,
                  staff_wellbeing : RawScores,
                  has_combined : BOOLEAN, combined_score : CombinedScores]

\* ScoreDetails.raw_score: Field(ge=0, le=1)
RawScoreValid(x) == x >= 0 /\ x <= 100

\* result_dict.get("combined_score", 0.0)
OverallScore(out) == IF out.has_combined THEN out.combined_score ELSE 0

ScoreOption ==
    /\ p_op = "score_option"
    /\ p_pc = "input"
    /\ p_out' =
         IF /\ RawScoreValid(p_in.profit)
            /\ RawScoreValid(p_in.customer_satisfaction)
            /\ RawScoreValid(p_in.staff_wellbeing)
           THEN [kind |-> "Scores",
                 profit |-> p_in.profit,
                 customer_satisfaction |-> p_in.customer_satisfaction,
                 staff_wellbeing |-> p_in.staff_wellbeing,
                 overall_score |-> OverallScore(p_in)]
           ELSE [kind |-> "ValidationError"]
    /\ p_pc' = "constructed"
    /\ UNCHANGED <<p_op, p_in>>
    /\ UNCHANGED <<retryVars, planVars, sessVars, runVars>>

\* ---- POST /api/v1/plan ----
\* what orchestrator.plan_shift and the saving of the result can end in
PlanOutcomes == {"response", "LLMQuotaError", "LLMServiceError",
                 "ValidationError", "ValueError", "RuntimeError", "OSError"}

\* @app.exception_handler(...) and the framework's handler of HTTPException
AppExceptionHandler(exc) ==
    CASE exc.type = "LLMQuotaError" ->
           [kind |-> "http", status |-> 429, error_type |-> "quota_exceeded"]
      [] exc.type = "LLMServiceError" ->
           [kind |-> "http", status |-> 503, error_type |-> "service_unavailable"]
      [] exc.type = "ValidationError" ->
           [kind |-> "http", status |-> 422, error_type |-> "parsing_error"]
      [] exc.type = "HTTPException" ->
           [kind |-> "http", status |-> exc.status, error_type |-> "none"]
      [] OTHER ->
           [kind |-> "http", status |-> 500, error_type |-> "none"]

\* except Exception as e: raise HTTPException(status_code=500, detail=str(e))
EndpointException(outcome) ==
    [type |-> "HTTPException", status |-> 500, detail |-> outcome]

ApiPlanShift ==
    /\ p_op = "api_plan"
    /\ p_pc = "input"
    /\ p_out' = IF p_in.outcome = "response"
                  THEN [kind |-> "http", status |-> 200, error_type |-> "none"]
                  ELSE AppExceptionHandler(EndpointException(p_in.outcome))
    /\ p_pc' = "constructed"
    /\ UNCHANGED <<p_op, p_in>>
    /\ UNCHANGED <<retryVars, planVars, sessVars, runVars>>

\* ---- AlignmentTargets ----
\* the three weights, in hundredths, given as keyword arguments
WeightValues == {0, 20, 30, 50, 100}
WeightInputs == [profit : WeightValues, customer_satisfaction : WeightValues,
                 staff_wellbeing : WeightValues]

\* AlignmentTargets(**data): three fields with defaults and no validator;
\* keywords that name no field are ignored
ConstructAlignment ==
    /\ p_op = "AlignmentTargets"
    /\ p_pc = "input"
    /\ p_out' = [kind |-> "AlignmentTargets",
                 target_labor_cost_percent |-> 3000,
                 target_wait_time_seconds |-> 180,
                 target_staff_utilization |-> 82]
    /\ p_pc' = "constructed"
    /\ UNCHANGED <<p_op, p_in>>
    /\ UNCHANGED <<retryVars, planVars, sessVars, runVars>>

\* ---- Constraints ----
AvailableStaffInputs == 0..7
\* the default of min_staff_per_station
DefaultMinStaff == [drive_thru |-> 2, kitchen |-> 3, front_counter |-> 1]

ConstraintsAccepts_NeedsRoom(a) ==
    a >= DefaultMinStaff.drive_thru + DefaultMinStaff.kitchen
           + DefaultMinStaff.front_counter

\* available_staff: int = Field(ge=1); no validator relates it to the minimums
ConstraintsAccepts(a) == a >= 1

\* Constraints(available_staff=a)
ConstructConstraints ==
    /\ p_op = "Constraints"
    /\ p_pc = "input"
    /\ p_out' = IF ConstraintsAccepts(p_in.available_staff)
                  THEN [kind |-> "Constraints",
                        available_staff |-> p_in.available_staff,
                        min_staff_per_station |-> DefaultMinStaff]
                  ELSE [kind |-> "ValidationError"]
    /\ p_pc' = "constructed"
    /\ UNCHANGED <<p_op, p_in>>
    /\ UNCHANGED <<retryVars, planVars, sessVars, runVars>>

\* ---- OperatorRunner.evaluate_case and run (evals/operator_runner.py) ----
\* what the judge call gives back: a failure, or the parsed JSON object
JudgeOutcomes ==
    {[kind |-> "raises", priority_score |-> 0, reasoning_score |-> 0,
      has_feedback |-> FALSE],
     [kind |-> "json", priority_score |-> 4, reasoning_score |-> 3,
      has_feedback |-> FALSE]}
    \cup [kind : {"json"}, priority_score : {3, 4, 6},
          reasoning_score : {2, 3}, has_feedback : {TRUE}]

\* the first plan's staffing, as Staffing builds it
CaseStaffing(dt, k) ==
    [drive_thru |-> dt, kitchen |-> k, front_counter |-> 1,
     total |-> calculate_total(0, [drive_thru |-> dt, kitchen |-> k,
                                   front_counter |-> 1])]

NoCaseStaffing == CaseStaffing(0, 0)
NoJudge == [kind |-> "none", priority_score |-> 0, reasoning_score |-> 0,
            has_feedback |-> FALSE]

\* a case together with what its two external calls will answer
EvalCases ==
    {[gen |-> g, staffing |-> NoCaseStaffing, available_staff |-> 15,
      judge |-> NoJudge] : g \in {"raises", "empty"}}
    \cup {[gen |-> "plans", staffing |-> CaseStaffing(dt, k),
           available_staff |-> a, judge |-> j] :
            dt \in {1, 2}, k \in {2, 3}, a \in {5, 15}, j \in JudgeOutcomes}

\* the cases a run is fed: those with a full kitchen and a pool of fifteen
RunCases ==
    {c \in EvalCases :
        c.gen = "plans" =>
            /\ c.staffing.kitchen = 3
            /\ c.available_staff = 15
            /\ c.judge.reasoning_score = 3}

CaseLists == UNION {[1..n -> RunCases] : n \in 0..MaxCases}

\* violations, in the order the code appends them
ConstraintOrder == <<"total", "drive_thru", "kitchen", "front_counter">>
Violated(case, name) ==
    IF name = "total"
      THEN case.staffing.total > case.available_staff
      ELSE case.staffing[name] < DefaultMinStaff[name]
Violations(case) ==
    LET Test(name) == Violated(case, name)
    IN  SelectSeq(ConstraintOrder, Test)

Passed_IgnoreViolations(violations, judge_score) ==
    judge_score.priority_score >= 4 /\ judge_score.reasoning_score >= 3

\* passed = len(violations) == 0 and priority_score >= 4 and reasoning_score >= 3
Passed(violations, judge_score) ==
    /\ Len(violations) = 0
    /\ judge_score.priority_score >= 4
    /\ judge_score.reasoning_score >= 3

OperatorEvalResultAccepts_Any(priority, reasoning) == TRUE

\* priority_score and reasoning_quality_score: int = Field(ge=0, le=5)
OperatorEvalResultAccepts(priority, reasoning) ==
    /\ 0 <= priority /\ priority <= 5
    /\ 0 <= reasoning /\ reasoning <= 5

\* the result of the except branch
ErrorResult(id, e) ==
    [kind |-> "OperatorEvalResult", case_id |-> id, passed |-> FALSE,
     has_plan |-> FALSE, constraint_violations |-> <<>>,
     priority_score |-> 0, reasoning_quality_score |-> 0,
     judge_feedback |-> "Internal Error during evaluation", error |-> e]

EvaluateCase(case, id) ==
    IF case.gen = "raises" THEN ErrorResult(id, "generation")
    ELSE IF case.gen = "empty"
      THEN [kind |-> "OperatorEvalResult", case_id |-> id, passed |-> FALSE,
            has_plan |-> FALSE, constraint_violations |-> <<>>,
            priority_score |-> 0, reasoning_quality_score |-> 0,
            judge_feedback |-> "Agent failed to generate any plans.",
            error |-> "None"]
    ELSE IF case.judge.kind = "raises" THEN ErrorResult(id, "judge")
    ELSE IF ~case.judge.has_feedback THEN ErrorResult(id, "KeyError")
    ELSE IF ~OperatorEvalResultAccepts(case.judge.priority_score,
                                       case.judge.reasoning_score)
      THEN ErrorResult(id, "ValidationError")
    ELSE [kind |-> "OperatorEvalResult", case_id |-> id,
          passed |-> Passed(Violations(case), case.judge),
          has_plan |-> TRUE, constraint_violations |-> Violations(case),
          priority_score |-> case.judge.priority_score,
          reasoning_quality_score |-> case.judge.reasoning_score,
          judge_feedback |-> "feedback", error |-> "None"]

\* one call of evaluate_case
EvaluateOneCase ==
    /\ p_op = "evaluate_case"
    /\ p_pc = "input"
    /\ p_out' = EvaluateCase(p_in, 1)
    /\ p_pc' = "constructed"
    /\ UNCHANGED <<p_op, p_in>>
    /\ UNCHANGED <<retryVars, planVars, sessVars, runVars>>

RunResults == IF p_out.kind = "running" THEN p_out.results ELSE <<>>

\* for case in cases: results.append(await self.evaluate_case(case))
RunEvaluateCase ==
    /\ p_op = "run"
    /\ p_pc \in {"input", "loop"}
    /\ Len(RunResults) < Len(p_in)
    /\ p_out' = [kind |-> "running",
                 results |-> Append(RunResults,
                     EvaluateCase(p_in[Len(RunResults) + 1],
                                  Len(RunResults) + 1))]
    /\ p_pc' = "loop"
    /\ UNCHANGED <<p_op, p_in>>
    /\ UNCHANGED <<retryVars, planVars, sessVars, runVars>>

\* after the loop: the summary, whose rates divide by len(cases)
RunSummary ==
    /\ p_op = "run"
    /\ p_pc \in {"input", "loop"}
    /\ Len(RunResults) = Len(p_in)
    /\ p_out' =
         IF Len(p_in) = 0
           THEN [kind |-> "ZeroDivisionError", results |-> RunResults]
           ELSE [kind |-> "OperatorEvalSummary", results |-> RunResults,
                 total_cases |-> Len(p_in),
                 passed_cases |->
                     Cardinality({i \in 1..Len(RunResults) :
                                      RunResults[i].passed})]
    /\ p_pc' = "constructed"
    /\ UNCHANGED <<p_op, p_in>>
    /\ UNCHANGED <<retryVars, planVars, sessVars, runVars>>

\* ---- QSROrchestrator.evaluate_shift ----
\* the evaluator's overall_prediction_quality: one of its five ratings, or
\* the key absent from accuracy_analysis
EvaluatorRatings ==
    {"excellent", "good", "acceptable", "poor", "very poor", "absent"}

quality_map ==
    [excellent |-> "excellent", good |-> "good", acceptable |-> "fair",
     poor |-> "poor"]

\* quality_map.get(accuracy_analysis.get("overall_prediction_quality",
\*                                       "fair"), "fair")
PredictionQuality(rating) ==
    LET key == IF rating = "absent" THEN "fair" ELSE rating
    IN  IF key \in DOMAIN quality_map THEN quality_map[key] ELSE "fair"

\* evaluate_shift on two requests whose evaluations carry the two ratings
EvaluateShift ==
    /\ p_op = "evaluate_shift"
    /\ p_pc = "input"
    /\ p_out' = [kind |-> "EvaluationResponse",
                 first |-> PredictionQuality(p_in.first),
                 second |-> PredictionQuality(p_in.second)]
    /\ p_pc' = "constructed"
    /\ UNCHANGED <<p_op, p_in>>
    /\ UNCHANGED <<retryVars, planVars, sessVars, runVars>>

InitPure ==
    /\ p_pc = "input"
    /\ p_out = NoOutput
    /\ \/ p_op = "Staffing" /\ p_in \in StaffingInputs
       \/ p_op = "Scenario" /\ p_in \in [day_of_week : DayInputs]
       \/ p_op = "score_option" /\ p_in \in ScorerOutputs
       \/ p_op = "api_plan" /\ p_in \in [outcome : PlanOutcomes]
       \/ p_op = "AlignmentTargets" /\ p_in \in WeightInputs
       \/ p_op = "evaluate_shift"
            /\ p_in \in [first : EvaluatorRatings, second : EvaluatorRatings]
       \/ p_op = "evaluate_case" /\ p_in \in EvalCases
       \/ p_op = "run" /\ p_in \in CaseLists
       \/ p_op = "Constraints" /\ p_in \in [available_staff : AvailableStaffInputs]
    /\ RetryIdle
    /\ PlanIdle
    /\ SessIdle
    /\ RunIdle

NextPure ==
    \/ ConstructStaffing
    \/ \E f \in Stations, v \in 0..MaxCount : AssignStation(f, v)
    \/ \E v \in 0..(3 * MaxCount) : AssignTotal(v)
    \/ ConstructScenario
    \/ ScoreOption
    \/ ApiPlanShift
    \/ ConstructAlignment
    \/ EvaluateShift
    \/ EvaluateOneCase
    \/ RunEvaluateCase
    \/ RunSummary
    \/ ConstructConstraints

SpecPure == InitPure /\ [][NextPure]_vars

\* ------------------------------------------------------------------------
\* Properties checked under SpecPure
\* ------------------------------------------------------------------------
\* C13: the aggregate score of every Scores value returned by score_option is
\* the mean of its three raw scores, whatever the external output held.
C13_AggregateIsMeanOfRaw ==
    (p_op = "score_option" /\ p_pc = "constructed" /\ p_out.kind = "Scores") =>
        3 * p_out.overall_score
          = p_out.profit + p_out.customer_satisfaction + p_out.staff_wellbeing

\* C14: a planning call that fails with LLMQuotaError is answered 429
\* quota_exceeded, one that fails with LLMServiceError 503
\* service_unavailable, and every other failure with neither.
C14_QuotaAndServiceDistinguished ==
    (p_op = "api_plan" /\ p_pc = "constructed") =>
        /\ p_in.outcome = "LLMQuotaError" =>
             p_out.status = 429 /\ p_out.error_type = "quota_exceeded"
        /\ p_in.outcome = "LLMServiceError" =>
             p_out.status = 503 /\ p_out.error_type = "service_unavailable"
        /\ p_in.outcome \notin {"LLMQuotaError", "LLMServiceError"} =>
             p_out.status \notin {429, 503}

\* C15: a Staffing constructed from counts >= 0 and any supplied total has
\* total = drive_thru + kitchen + front_counter.
C15_ConstructedTotalIsSum ==
    (/\ p_op = "Staffing"
     /\ p_pc = "constructed"
     /\ p_in.drive_thru >= 0 /\ p_in.kitchen >= 0 /\ p_in.front_counter >= 0) =>
        /\ p_out.kind = "Staffing"
        /\ p_out.drive_thru = p_in.drive_thru
        /\ p_out.kitchen = p_in.kitchen
        /\ p_out.front_counter = p_in.front_counter
        /\ p_out.total = p_in.drive_thru + p_in.kitchen + p_in.front_counter

C15_Witness ==
    /\ p_op = "Staffing"
    /\ p_pc = "constructed"
    /\ p_out.kind = "Staffing"
    /\ p_in.total = 7
    /\ p_out.total = 3
    /\ p_out.total # p_in.total

\* C16: total = drive_thru + kitchen + front_counter holds of a Staffing at
\* all times, after any assignment to a station count or to total.
C16_TotalIsSumAtAllTimes ==
    (p_op = "Staffing" /\ p_pc # "input" /\ p_out.kind = "Staffing") =>
        p_out.total = p_out.drive_thru + p_out.kitchen + p_out.front_counter

\* C22: every Scores value returned by score_option has its overall score and
\* its three raw scores within [0, 1].
C22_ReturnedScoresInUnitInterval ==
    (p_op = "score_option" /\ p_pc = "constructed" /\ p_out.kind = "Scores") =>
        /\ p_out.overall_score \in 0..100
        /\ p_out.profit \in 0..100
        /\ p_out.customer_satisfaction \in 0..100
        /\ p_out.staff_wellbeing \in 0..100

\* C23: alignment weights that do not sum to 1.0 are rejected at
\* construction: no object comes out of them.
C23_WeightsMustSumToOne ==
    (/\ p_op = "AlignmentTargets"
     /\ p_pc = "constructed"
     /\ p_in.profit + p_in.customer_satisfaction + p_in.staff_wellbeing # 100) =>
        p_out.kind \in {"ValueError", "ValidationError"}

\* C19: a Scenario exists only with day_of_week one of the seven lower-case
\* day names: any value that is not a day name is rejected with a validation
\* error, and an accepted value is stored lower-cased.
SevenDays == {"monday", "tuesday", "wednesday", "thursday", "friday",
              "saturday", "sunday"}
NamesADay(v) ==
    \/ v \in SevenDays
    \/ v \in {"Monday", "MONDAY", "Friday", "FRIDAY", "fRiDaY", "Sunday"}

C19_DayOfWeekValidated ==
    (p_op = "Scenario" /\ p_pc = "constructed") =>
        /\ p_out.kind \in {"Scenario", "ValidationError"}
        /\ p_out.kind = "ValidationError" <=> ~NamesADay(p_in.day_of_week)
        /\ p_out.kind = "Scenario" => p_out.day_of_week \in SevenDays

C19_Witness ==
    /\ p_op = "Scenario"
    /\ p_pc = "constructed"
    /\ p_in.day_of_week = "Friday"
    /\ p_out.kind = "Scenario"
    /\ p_out.day_of_week = "friday"

\* a Staffing that the constraints c allow: every station at or above its
\* minimum and the total within the pool
SatisfiableConstraints(c) ==
    \E dt, k, fc \in 0..(MaxCount + 1) :
        /\ dt >= c.min_staff_per_station.drive_thru
        /\ k >= c.min_staff_per_station.kitchen
        /\ fc >= c.min_staff_per_station.front_counter
        /\ dt + k + fc <= c.available_staff

\* C36 as stated: every accepted Constraints value with the default minimums
\* admits a Staffing within the pool that meets every station minimum.
C36_AcceptedConstraintsSatisfiable ==
    (p_op = "Constraints" /\ p_pc = "constructed"
       /\ p_out.kind = "Constraints") => SatisfiableConstraints(p_out)

\* C36: a Constraints value is accepted exactly when available_staff >= 1,
\* and with the default minimums an accepted value admits a Staffing exactly
\* when available_staff >= 6.
C36_AcceptedFromOneSatisfiableFromSix ==
    (p_op = "Constraints" /\ p_pc = "constructed") =>
        /\ p_out.kind = "Constraints" <=> p_in.available_staff >= 1
        /\ p_out.kind = "Constraints" =>
             (SatisfiableConstraints(p_out) <=> p_out.available_staff >= 6)

C36_Witness ==
    /\ p_op = "Constraints"
    /\ p_pc = "constructed"
    /\ p_out.kind = "Constraints"
    /\ p_out.available_staff = 3
    /\ ~SatisfiableConstraints(p_out)

\* the constraints of a case, as the claim words them
MeetsEveryConstraint(case) ==
    /\ case.staffing.total <= case.available_staff
    /\ \A st \in Stations : case.staffing[st] >= DefaultMinStaff[st]
BreachedConstraints(case) ==
    (IF case.staffing.total > case.available_staff THEN {"total"} ELSE {})
    \cup {st \in Stations : case.staffing[st] < DefaultMinStaff[st]}
JudgeWantsPass(case) ==
    /\ case.judge.kind = "json"
    /\ case.judge.priority_score >= 4
    /\ case.judge.reasoning_score >= 3
\* a judge answer the result schema takes: both scores within 0..5 and a
\* feedback text
ValidJudgeScoring(j) ==
    /\ j.kind = "json"
    /\ j.has_feedback
    /\ j.priority_score \in 0..5
    /\ j.reasoning_score \in 0..5

\* C37 as stated: passed exactly when the first plan is within the pool, every
\* station is at its minimum or above, the judge's priority score is >= 4 and
\* its reasoning score >= 3; one recorded violation per breached constraint.
C37_PassedIffConstraintsAndJudge ==
    (p_op = "evaluate_case" /\ p_pc = "constructed") =>
        /\ p_out.passed <=>
             (p_in.gen = "plans" /\ MeetsEveryConstraint(p_in)
                /\ JudgeWantsPass(p_in))
        /\ p_out.has_plan =>
             Len(p_out.constraint_violations)
               = Cardinality(BreachedConstraints(p_in))

\* C37: the same, for a judge answer the result schema takes (integer scores
\* within 0..5 and a feedback text); with any other judge answer the case is
\* not passed.
C37_PassedIffConstraintsAndValidJudge ==
    (p_op = "evaluate_case" /\ p_pc = "constructed") =>
        /\ p_out.passed <=>
             (p_in.gen = "plans" /\ MeetsEveryConstraint(p_in)
                /\ ValidJudgeScoring(p_in.judge) /\ JudgeWantsPass(p_in))
        /\ (p_in.gen = "plans" /\ ValidJudgeScoring(p_in.judge)) =>
             /\ Len(p_out.constraint_violations)
                  = Cardinality(BreachedConstraints(p_in))
             /\ \A name \in BreachedConstraints(p_in) :
                  \E i \in 1..Len(p_out.constraint_violations) :
                      p_out.constraint_violations[i] = name

C37_Witness ==
    /\ p_op = "evaluate_case"
    /\ p_pc = "constructed"
    /\ p_out.passed
    /\ MeetsEveryConstraint(p_in)
    /\ p_out.priority_score = 4
    /\ p_out.reasoning_quality_score = 3

\* a case whose evaluation fails on the way: generation fails or yields no
\* plan, the judge call fails, or the result cannot be built from its answer
FailingCase(case) ==
    \/ case.gen \in {"raises", "empty"}
    \/ case.judge.kind = "raises"
    \/ ~case.judge.has_feedback
    \/ case.judge.priority_score \notin 0..5
    \/ case.judge.reasoning_score \notin 0..5

\* C38: evaluate_case always ends in a result, which for a failing case has
\* passed = false and both scores 0; run holds one result per case evaluated
\* so far, in the order of the cases, and one per case when the loop is over.
C38_OneResultPerCaseInOrder ==
    /\ (p_op = "evaluate_case" /\ p_pc = "constructed") =>
         /\ p_out.kind = "OperatorEvalResult"
         /\ FailingCase(p_in) =>
              /\ ~p_out.passed
              /\ p_out.priority_score = 0
              /\ p_out.reasoning_quality_score = 0
    /\ (p_op = "run" /\ p_pc # "input") =>
         /\ Len(p_out.results) <= Len(p_in)
         /\ p_pc = "constructed" => Len(p_out.results) = Len(p_in)
         /\ \A i \in 1..Len(p_out.results) :
              /\ p_out.results[i].kind = "OperatorEvalResult"
              /\ p_out.results[i].case_id = i
              /\ FailingCase(p_in[i]) =>
                   /\ ~p_out.results[i].passed
                   /\ p_out.results[i].priority_score = 0
                   /\ p_out.results[i].reasoning_quality_score = 0

C38_Witness ==
    /\ p_op = "run"
    /\ p_pc = "constructed"
    /\ Len(p_in) = 2
    /\ p_in[1].gen = "raises"
    /\ Len(p_out.results) = 2
    /\ p_out.results[1].error = "generation"
    /\ p_out.results[2].passed

\* the evaluator's five ratings and the four reported qualities, worst first
RatingRank(r) ==
    CASE r = "very poor" -> 0
      [] r = "poor" -> 1
      [] r = "acceptable" -> 2
      [] r = "good" -> 3
      [] r = "excellent" -> 4
QualityRank(q) ==
    CASE q = "poor" -> 0
      [] q = "fair" -> 1
      [] q = "good" -> 2
      [] q = "excellent" -> 3
FiveRatings == {"very poor", "poor", "acceptable", "good", "excellent"}

\* C39: the reported prediction_quality is one of excellent, good, fair and
\* poor, and of two evaluator ratings the worse one is never reported as the
\* better quality.
C39_QualityMappingOrderPreserving ==
    (p_op = "evaluate_shift" /\ p_pc = "constructed") =>
        /\ p_out.first \in {"excellent", "good", "fair", "poor"}
        /\ p_out.second \in {"excellent", "good", "fair", "poor"}
        /\ (/\ p_in.first \in FiveRatings
            /\ p_in.second \in FiveRatings
            /\ RatingRank(p_in.first) < RatingRank(p_in.second))
             => QualityRank(p_out.first) <= QualityRank(p_out.second)

\* ========================================================================
\* Two plan_shift invocations on the one module-level orchestrator
\* (api/main.py:60), interleaved at their external calls.  Each round
\* evaluates one option; the scores a session's scorer calls return are its
\* script.
\* ========================================================================
Sessions == {1, 2}
SessionScores == {80, 90, 95}
Scripts == [1..MAX_ATTEMPTS -> SessionScores]
\* the ranking text the scorer's answer carries beside the scores
Rankings == {"excellent", "poor"}
RankingScripts == [1..MAX_ATTEMPTS -> Rankings]

NoSessEval == [round |-> 0, session |-> 0, option |-> [id |-> 0],
               scores |-> [overall_score |-> 0, ranking |-> "none"]]
EmptyFrame == [attempts |-> 0, feedback |-> NoFeedback, evaluations |-> <<>>]

FrameOf_Shared(s) == 1

\* evaluations, feedback and attempts are local variables of plan_shift:
\* every invocation has its own
FrameOf(s) == s

InitSessions ==
    /\ sess \in {[pc |-> [s \in Sessions |-> "start"],
                  frame |-> [c \in Sessions |-> EmptyFrame],
                  script |-> sc,
                  ranking |-> rk,
                  result |-> [s \in Sessions |-> NoSessEval],
                  calls |-> [s \in Sessions |-> <<>>],
                  log |-> {}] :
                     sc \in [Sessions -> Scripts],
                     rk \in [Sessions -> RankingScripts]}
    /\ RetryIdle
    /\ PlanIdle
    /\ PureIdle
    /\ RunIdle

\* context analysis, then evaluations = [], feedback = None, attempts = 0
SessionStart(s) ==
    /\ sess.pc[s] = "start"
    /\ sess' = [sess EXCEPT !.pc[s] = "while",
                            !.frame[FrameOf(s)] = EmptyFrame]
    /\ UNCHANGED <<retryVars, planVars, pureVars, runVars>>

\* while attempts < MAX_ATTEMPTS: attempts += 1; generate_staffing_plan(...,
\* feedback=feedback)
SessionGenerate(s) ==
    LET f == sess.frame[FrameOf(s)] IN
    /\ sess.pc[s] = "while"
    /\ LoopContinues(f.attempts)
    /\ sess' = [sess EXCEPT
                  !.pc[s] = "simulate",
                  !.frame[FrameOf(s)].attempts = f.attempts + 1,
                  !.calls[s] = Append(@, [stage |-> "generate",
                                          feedback |-> f.feedback]),
                  !.log = @ \cup {[session |-> s, round |-> f.attempts + 1,
                                   feedback |-> f.feedback]}]
    /\ UNCHANGED <<retryVars, planVars, pureVars, runVars>>

SessionLoopExit(s) ==
    /\ sess.pc[s] = "while"
    /\ ~LoopContinues(sess.frame[FrameOf(s)].attempts)
    /\ sess' = [sess EXCEPT !.pc[s] = "final"]
    /\ UNCHANGED <<retryVars, planVars, pureVars, runVars>>

\* world_model_agent.simulate(scenario, staffing)
SessionSimulate(s) ==
    /\ sess.pc[s] = "simulate"
    /\ sess' = [sess EXCEPT
                  !.pc[s] = "score",
                  !.calls[s] = Append(@, [stage |-> "simulate",
                                          feedback |-> NoFeedback])]
    /\ UNCHANGED <<retryVars, planVars, pureVars, runVars>>

\* scorer_agent.score_option, evaluations.append, the threshold test and the
\* feedback for the next round
SessionScore(s) ==
    LET f == sess.frame[FrameOf(s)]
        n == IF f.attempts \in 1..MAX_ATTEMPTS THEN f.attempts ELSE MAX_ATTEMPTS
        e == [round |-> f.attempts, session |-> s, option |-> [id |-> 1],
              scores |-> [overall_score |-> sess.script[s][n],
                          ranking |-> sess.ranking[s][n]]]
    IN
    /\ sess.pc[s] = "score"
    /\ sess' = [sess EXCEPT
                  !.calls[s] = Append(@, [stage |-> "score",
                                          feedback |-> NoFeedback]),
                  !.pc[s] = IF ReachedTarget(Score(e)) THEN "final" ELSE "while",
                  !.frame[FrameOf(s)].evaluations = Append(f.evaluations, e),
                  !.frame[FrameOf(s)].feedback =
                      IF ReachedTarget(Score(e)) \/ f.attempts >= MAX_ATTEMPTS
                        THEN f.feedback
                        ELSE BuildFeedback(f.attempts, e)]
    /\ UNCHANGED <<retryVars, planVars, pureVars, runVars>>

\* best_overall = max(evaluations, key=overall_score); return
SessionReturn(s) ==
    LET f == sess.frame[FrameOf(s)] IN
    /\ sess.pc[s] = "final"
    /\ sess' = [sess EXCEPT
                  !.pc[s] = IF f.evaluations = <<>> THEN "raised" ELSE "returned",
                  !.result[s] = IF f.evaluations = <<>> THEN NoSessEval
                                ELSE FirstMax(f.evaluations)]
    /\ UNCHANGED <<retryVars, planVars, pureVars, runVars>>

NextSessions ==
    \E s \in Sessions :
        \/ SessionStart(s)
        \/ SessionGenerate(s)
        \/ SessionLoopExit(s)
        \/ SessionSimulate(s)
        \/ SessionScore(s)
        \/ SessionReturn(s)

SpecSessions == InitSessions /\ [][NextSessions]_vars

\* ------------------------------------------------------------------------
\* Properties checked under SpecSessions
\* ------------------------------------------------------------------------
\* the rounds a session runs alone: up to the first one that reaches the
\* target, at most MAX_ATTEMPTS
RoundsAlone(sc) ==
    IF \E i \in 1..MAX_ATTEMPTS : sc[i] >= TARGET_SCORE
      THEN CHOOSE i \in 1..MAX_ATTEMPTS :
               /\ sc[i] >= TARGET_SCORE
               /\ \A j \in 1..(i - 1) : sc[j] < TARGET_SCORE
      ELSE MAX_ATTEMPTS

\* the round whose evaluation a session running alone returns
BestRoundAlone(sc) ==
    CHOOSE i \in 1..RoundsAlone(sc) :
        /\ \A j \in 1..RoundsAlone(sc) : sc[j] <= sc[i]
        /\ \A j \in 1..(i - 1) : sc[j] < sc[i]

\* C20: under every interleaving of two sessions on one orchestrator, the
\* evaluations a session holds were written by that session, the feedback
\* handed to each of its generation calls is the one built from its own
\* previous round, and the evaluation it returns is the one it would return
\* running alone.
C20_SessionsDoNotInterfere ==
    /\ \A s \in Sessions :
         \A i \in 1..Len(sess.frame[s].evaluations) :
             sess.frame[s].evaluations[i].session = s
    /\ \A c \in sess.log :
         IF c.round = 1
           THEN c.feedback = NoFeedback
           ELSE /\ c.round \in 2..MAX_ATTEMPTS
                /\ c.feedback.attempt = c.round - 1
                /\ c.feedback.score = sess.script[c.session][c.round - 1]
    /\ \A s \in Sessions :
         /\ sess.pc[s] # "raised"
         /\ sess.pc[s] = "returned" =>
              /\ sess.result[s].session = s
              /\ sess.result[s].round = BestRoundAlone(sess.script[s])
              /\ Score(sess.result[s])
                   = sess.script[s][BestRoundAlone(sess.script[s])]

C20_Witness ==
    /\ sess.pc[1] = "returned"
    /\ sess.pc[2] = "score"
    /\ sess.result[1].round = 2
    /\ Score(sess.result[1]) = 90
    /\ sess.script[2][1] = 80
    /\ [session |-> 2, round |-> 2,
        feedback |-> [attempt |-> 1, score |-> 80, source |-> <<1, 1>>]]
         \in sess.log

IsPrefixOf(a, b) == Len(a) <= Len(b) /\ SubSeq(b, 1, Len(a)) = a

\* C33: two runs whose scorer answers carry the same numbers and any ranking
\* texts make the same calls, one after the other, and return the evaluation
\* of the same round with the same score.
C33_RankingTextDoesNotSteer ==
    sess.script[1] = sess.script[2] =>
        /\ \/ IsPrefixOf(sess.calls[1], sess.calls[2])
           \/ IsPrefixOf(sess.calls[2], sess.calls[1])
        /\ (sess.pc[1] = "returned" /\ sess.pc[2] = "returned") =>
             /\ sess.calls[1] = sess.calls[2]
             /\ sess.result[1].round = sess.result[2].round
             /\ sess.result[1].option = sess.result[2].option
             /\ sess.result[1].scores.overall_score
                  = sess.result[2].scores.overall_score

C33_Witness ==
    /\ sess.pc[1] = "returned"
    /\ sess.pc[2] = "returned"
    /\ sess.script[1] = sess.script[2]
    /\ sess.script[1][1] < sess.script[1][2]
    /\ \A n \in 1..MAX_ATTEMPTS : sess.ranking[1][n] # sess.ranking[2][n]
    /\ sess.result[1].round = 2
    /\ sess.result[1].scores.ranking # sess.result[2].scores.ranking
    /\ Len(sess.calls[1]) = 3 * MAX_ATTEMPTS

\* ========================================================================
\* The loop of plan_shift as a function of the number of attempts.
\* orchestrator.py:93 fixes MAX_ATTEMPTS = 2; here the run is given
\* max_attempts in 1..MaxAttemptsBound and one option per round.
\* ========================================================================
RoundScores == {70, 80, 90, 95}

InitRounds ==
    /\ run \in {[pc |-> "while", max_attempts |-> n, attempts |-> 0,
                 feedback |-> NoFeedback, evaluations |-> <<>>,
                 log |-> <<>>, result |-> NoSessEval] :
                n \in 1..MaxAttemptsBound}
    /\ RetryIdle
    /\ PlanIdle
    /\ PureIdle
    /\ SessIdle

\* while attempts < MAX_ATTEMPTS: attempts += 1; generate_staffing_plan(...,
\* context=initial_context, feedback=feedback)
RoundGenerate ==
    /\ run.pc = "while"
    /\ run.attempts < run.max_attempts
    /\ run' = [run EXCEPT
                 !.pc = "simulate",
                 !.attempts = @ + 1,
                 !.log = Append(@, [round |-> run.attempts + 1,
                                    feedback |-> run.feedback])]
    /\ UNCHANGED <<retryVars, planVars, pureVars, sessVars>>

RoundLoopExit ==
    /\ run.pc = "while"
    /\ ~(run.attempts < run.max_attempts)
    /\ run' = [run EXCEPT !.pc = "final"]
    /\ UNCHANGED <<retryVars, planVars, pureVars, sessVars>>

\* world_model_agent.simulate(scenario, staffing)
RoundSimulate ==
    /\ run.pc = "simulate"
    /\ run' = [run EXCEPT !.pc = "score"]
    /\ UNCHANGED <<retryVars, planVars, pureVars, sessVars>>

\* score_option, evaluations.append, best_of_run, the threshold test and the
\* feedback for the next round
RoundScore(sc) ==
    LET evaluation == [round |-> run.attempts, session |-> 0,
                       option |-> [id |-> 1],
                       scores |-> [overall_score |-> sc]]
        best_of_run == FirstMax(<<evaluation>>)
    IN
    /\ run.pc = "score"
    /\ run' = [run EXCEPT
                 !.evaluations = Append(@, evaluation),
                 !.pc = IF ReachedTarget(Score(best_of_run))
                          THEN "final" ELSE "while",
                 !.feedback =
                     IF ~ReachedTarget(Score(best_of_run))
                          /\ run.attempts < run.max_attempts
                       THEN BuildFeedback(run.attempts, best_of_run)
                       ELSE @]
    /\ UNCHANGED <<retryVars, planVars, pureVars, sessVars>>

\* best_overall = max(evaluations, key=overall_score); return
RoundReturn ==
    /\ run.pc = "final"
    /\ run' = [run EXCEPT
                 !.pc = IF run.evaluations = <<>> THEN "raised" ELSE "returned",
                 !.result = IF run.evaluations = <<>> THEN NoSessEval
                            ELSE FirstMax(run.evaluations)]
    /\ UNCHANGED <<retryVars, planVars, pureVars, sessVars>>

NextRounds ==
    \/ RoundGenerate
    \/ RoundLoopExit
    \/ RoundSimulate
    \/ \E sc \in RoundScores : RoundScore(sc)
    \/ RoundReturn

SpecRounds == InitRounds /\ [][NextRounds]_vars

\* ------------------------------------------------------------------------
\* Properties checked under SpecRounds
\* ------------------------------------------------------------------------
\* evaluations of the rounds before round r
EvaluationsBefore(r) ==
    {i \in 1..Len(run.evaluations) : run.evaluations[i].round < r}

====
